---- MODULE Spec2Model ----
(***************************************************************************)
(* A model of folly/tracing/AsyncStack.cpp: the per-thread current         *)
(* AsyncStackRoot pointer, ScopedAsyncStackRoot, exchangeCurrentAsync-     *)
(* StackRoot, resumeCoroutineWithNewAsyncStackRoot and the registry of     *)
(* suspended leaf frames with its reader/writer lock, getCurrentAsync-     *)
(* StackRoot, and the construction of a thread's holder with the pthread   *)
(* key it is registered under.                                             *)
(*                                                                         *)
(* Every thread runs one call at a time; pc[t] is its position inside the  *)
(* call ("idle": in caller code, possibly inside the body of a coroutine   *)
(* resumed by resumeCoroutineWithNewAsyncStackRoot).  Each load and store  *)
(* of the holder, of a frame's stackRoot and of the registry is a step of  *)
(* its own; writes to a root that the holder does not yet point to, and    *)
(* the assert() lines at the start of a call, go with the step before.     *)
(***************************************************************************)
EXTENDS Integers, Sequences, FiniteSets, TLC

\* ------------------------------------------------------------- bounds
NumThreads == 2
MaxRoots == 2
MaxFrames == 2
\* the calls into the root operations that one run makes, all threads together
MaxCalls == 3

Threads == 1..NumThreads
Roots == 1..MaxRoots
Frames == 1..MaxFrames

\* ---------------------------------------------------------- constants
\* nullptr
NullPtr == 0
\* __folly_suspended_frame_cookie: a value that is no root's address
Cookie == -1

VARIABLES
    kIsDebug,   \* folly::kIsDebug; assert() is compiled in exactly when it holds
    value,      \* currentThreadAsyncStackRoot.value, one per thread
    roots,      \* the AsyncStackRoot objects embedded in ScopedAsyncStackRoot
    stackRoot,  \* AsyncStackFrame::stackRoot, one per frame
    registry,   \* the unordered_set inside suspendedLeafFrames()
    lock,       \* the SharedMutex of suspendedLeafFrames(): writers, readers
    pc,         \* each thread's position
    arg,        \* the operand of the call a thread is in (root, frame, newRoot)
    old,        \* oldStackRoot of exchangeCurrentAsyncStackRoot
    ret,        \* the value a call returned
    calls,      \* the resumeCoroutineWithNewAsyncStackRoot calls on each thread's stack
    visited,    \* the frames a sweep's visitor was invoked with, in order
    hist,       \* history: what a call overwrote, whether a signal handler wrote
    leafLog,    \* history: the frames activated as leaves and not since deactivated
    ncalls,     \* the calls into the root operations made so far
    tls         \* the pthread key, its once flag, and each thread's holder object

vars == <<kIsDebug, value, roots, stackRoot, registry, lock, pc, arg, old, ret,
          calls, visited, hist, leafLog, ncalls, tls>>

\* An AsyncStackRoot that is not constructed.
\*   ctx, nextSet: lines 144 and 145 have run for this object
\*   installed:    line 146 has run for this object
\*   pub:          the object's initialisation was released to acquire readers
\*   before:       history, the thread's current root when the constructor began
\*   born:         history, the order of construction among the owner's roots:
\*                 greater than that of every root of the owner alive then
NoRoot ==
    [alive |-> FALSE, owner |-> 0, resume |-> FALSE, ctx |-> FALSE,
     nextSet |-> FALSE, nextRoot |-> NullPtr, topFrame |-> NullPtr,
     installed |-> FALSE, pub |-> FALSE, before |-> NullPtr, born |-> 0]

NoHist == [over |-> NullPtr, sig |-> FALSE]

AbortPcs ==
    {"abort_dtor_order", "abort_dtor_topframe", "abort_activate_frame",
     "abort_activate_leaf", "abort_deactivate_leaf", "abort_get_current"}

\* std::terminate() after RAW_LOG(FATAL, ...), lines 83-87 and 101-105
TerminatePcs == {"terminate_key", "terminate_set"}

\* A failed assert() and std::terminate() end the process: no thread takes
\* another step.
Aborted == \E t \in Threads : pc[t] \in AbortPcs \cup TerminatePcs

\* The thread-local storage before any thread has used its holder.
\*   pthread: FOLLY_ASYNC_STACK_ROOT_USE_PTHREAD, lines 35-39
\*   once:    initialiseTlsKeyFlag, line 77
\*   key:     folly_async_stack_root_tls_key, an invalid key until created
\*   slot:    what each thread has stored under the key
\*   holder:  how far the construction of each thread's holder object is
\*   creates: history, the successful calls of pthread_key_create
\*   logged:  history, RAW_LOG(FATAL, ...) has run
TlsFresh(usePthread) ==
    [pthread |-> usePthread, once |-> "init", key |-> "invalid",
     slot |-> [t \in Threads |-> NullPtr],
     holder |-> [t \in Threads |-> "none"],
     creates |-> 0, logged |-> FALSE]

\* The thread-local storage when every thread has constructed its holder, on
\* a platform that uses the pthread key.
TlsReady ==
    [pthread |-> TRUE, once |-> "done", key |-> "created",
     slot |-> [t \in Threads |-> t],
     holder |-> [t \in Threads |-> "done"],
     creates |-> 1, logged |-> FALSE]

\* The program's state when no thread has made a call yet.
InitProgram ==
    /\ kIsDebug \in BOOLEAN
    /\ value = [t \in Threads |-> NullPtr]
    /\ roots = [r \in Roots |-> NoRoot]
    /\ stackRoot = [f \in Frames |-> NullPtr]
    /\ registry = {}
    /\ lock = [writers |-> {}, readers |-> {}]
    /\ pc = [t \in Threads |-> "idle"]
    /\ arg = [t \in Threads |-> NullPtr]
    /\ old = [t \in Threads |-> NullPtr]
    /\ ret = [t \in Threads |-> NullPtr]
    /\ calls = [t \in Threads |-> <<>>]
    /\ visited = [t \in Threads |-> <<>>]
    /\ hist = [t \in Threads |-> NoHist]
    /\ leafLog = {}
    /\ ncalls = 0

\* The threads run, each with its holder constructed.
Init ==
    /\ tls = TlsReady
    /\ InitProgram

\* The process starts: no thread has used its holder yet.
InitTls ==
    /\ tls \in {TlsFresh(p) : p \in BOOLEAN}
    /\ InitProgram

\* ------------------------------------------------ AsyncStackRootHolder

\* line 125: currentThreadAsyncStackRoot is thread_local, every thread names
\* its own holder by it
currentThreadAsyncStackRoot_asGlobal(t) == 1

currentThreadAsyncStackRoot(t) == t

\* AsyncStackRootHolder::get
get(t) == value[currentThreadAsyncStackRoot(t)]

\* tryGetCurrentAsyncStackRoot, lines 129-131
tryGetCurrentAsyncStackRoot_asNone(t) == NullPtr

tryGetCurrentAsyncStackRoot(t) == get(t)

\* The roots of thread t whose constructor has finished and that live.
LiveRoots(t) ==
    {r \in Roots : roots[r].alive /\ roots[r].owner = t /\ roots[r].installed}

\* What a store to the holder makes visible to a reader that loads the
\* pointer with acquire ordering.  set() stores with memory_order_release: all
\* that thread t wrote to its roots before the store is visible with it.
set_asRelaxedStore(t, rs) == rs

set(t, rs) ==
    [q \in Roots |->
        IF rs[q].alive /\ rs[q].owner = t
        THEN [rs[q] EXCEPT !.pub = rs[q].ctx /\ rs[q].nextSet]
        ELSE rs[q]]

\* set_relaxed() stores with memory_order_relaxed: it releases nothing.
set_relaxed(t, rs) == rs

\* ------------------------------- the holder's construction, lines 77-107

\* Thread t's holder object is constructed: t may load and store its pointer.
HolderReady(t) == tls.holder[t] = "done"

\* The first use of currentThreadAsyncStackRoot on thread t constructs the
\* thread_local object: line 96, and line 97's call.  Without the pthread key
\* the constructor is the implicit one.
HolderCtorCall(t) ==
    /\ ~Aborted
    /\ pc[t] = "idle"
    /\ tls.holder[t] = "none"
    /\ IF tls.pthread
       THEN /\ tls' = [tls EXCEPT !.holder[t] = "ctor"]
            /\ pc' = [pc EXCEPT ![t] = "tls_once"]
       ELSE /\ tls' = [tls EXCEPT !.holder[t] = "done"]
            /\ pc' = pc
    /\ UNCHANGED <<kIsDebug, value, roots, stackRoot, registry, lock, arg, old,
                   ret, calls, visited, hist, leafLog, ncalls>>

\* line 80: whether pthread_once lets the caller through: not while another
\* thread runs the initialiser
OncePasses == tls.once # "running"

\* line 80: pthread_once runs the lambda in the first caller, lets later
\* callers wait until it has run, and then returns at once
TlsOnce(t) ==
    /\ ~Aborted
    /\ pc[t] = "tls_once"
    /\ OncePasses
    /\ IF tls.once = "done"
       THEN /\ pc' = [pc EXCEPT ![t] = "tls_set"]
            /\ tls' = tls
       ELSE /\ pc' = [pc EXCEPT ![t] = "tls_create"]
            /\ tls' = [tls EXCEPT !.once = "running"]
    /\ UNCHANGED <<kIsDebug, value, roots, stackRoot, registry, lock, arg, old,
                   ret, calls, visited, hist, leafLog, ncalls>>

\* lines 82-88: where a failed pthread_key_create leads
KeyCreateFailed == "terminate_key"

\* lines 81-88: pthread_key_create succeeds or fails (EAGAIN, ENOMEM); a
\* failure is logged as fatal and the process terminated
TlsKeyCreate(t) ==
    /\ ~Aborted
    /\ pc[t] = "tls_create"
    /\ \E ok \in BOOLEAN :
          IF ok
          THEN /\ tls' = [tls EXCEPT !.key = "created", !.once = "done",
                                     !.creates = @ + 1]
               /\ pc' = [pc EXCEPT ![t] = "tls_set"]
          ELSE /\ tls' = [tls EXCEPT !.logged = TRUE]
               /\ pc' = [pc EXCEPT ![t] = KeyCreateFailed]
    /\ UNCHANGED <<kIsDebug, value, roots, stackRoot, registry, lock, arg, old,
                   ret, calls, visited, hist, leafLog, ncalls>>

\* lines 100-106: where a failed pthread_setspecific leads
SetSpecificFailed_asIgnored == "tls_ret"

SetSpecificFailed == "terminate_set"

\* lines 98-106: pthread_setspecific(key, this) succeeds or fails (ENOMEM, or
\* EINVAL of a key that is not valid); a failure is logged as fatal and the
\* process terminated
TlsSetSpecific(t) ==
    /\ ~Aborted
    /\ pc[t] = "tls_set"
    /\ \E ok \in BOOLEAN :
          IF ok /\ tls.key = "created"
          THEN /\ tls' = [tls EXCEPT !.slot[t] = t]
               /\ pc' = [pc EXCEPT ![t] = "tls_ret"]
          ELSE /\ tls' = [tls EXCEPT !.logged = TRUE]
               /\ pc' = [pc EXCEPT ![t] = SetSpecificFailed]
    /\ UNCHANGED <<kIsDebug, value, roots, stackRoot, registry, lock, arg, old,
                   ret, calls, visited, hist, leafLog, ncalls>>

\* line 107, and line 122: the constructor returns, the pointer is nullptr
HolderCtorReturn(t) ==
    /\ ~Aborted
    /\ pc[t] = "tls_ret"
    /\ tls' = [tls EXCEPT !.holder[t] = "done"]
    /\ value' = [value EXCEPT ![currentThreadAsyncStackRoot(t)] = NullPtr]
    /\ pc' = [pc EXCEPT ![t] = "idle"]
    /\ UNCHANGED <<kIsDebug, roots, stackRoot, registry, lock, arg, old,
                   ret, calls, visited, hist, leafLog, ncalls>>

\* ------------------------------------------------------------ helpers

RetPcs ==
    {"dtor_ret", "res_ret", "exch_ret", "act_ret", "deact_ret", "get_ret"}

LeafPcs ==
    {"act_lock", "act_insert", "act_ret", "deact_lock", "deact_erase",
     "deact_ret"}

FreeRoots == {r \in Roots : ~roots[r].alive}

\* The storage a new ScopedAsyncStackRoot gets: the lowest free slot.
NewRoot == CHOOSE r \in FreeRoots : \A q \in FreeRoots : r <= q

\* Frames are not shared between running calls of two threads (two threads
\* writing one frame's stackRoot is a data race the callers must exclude).
FrameBusyElsewhere(t, f) ==
    \E u \in Threads \ {t} :
        \/ pc[u] \in LeafPcs /\ arg[u] = f
        \/ \E i \in DOMAIN calls[u] : calls[u][i].frame = f

\* One more call into the root operations, while the run's budget lasts.
CountCall == ncalls < MaxCalls /\ ncalls' = ncalls + 1


\* --------------------------------------------- ScopedAsyncStackRoot

\* The order of construction of the next root of thread t.
RECURSIVE MaxBorn(_)
MaxBorn(rs) ==
    IF rs = {} THEN 0
    ELSE LET r == CHOOSE q \in rs : TRUE
             m == MaxBorn(rs \ {r})
         IN  IF roots[r].born > m THEN roots[r].born ELSE m

NextBorn(t) ==
    MaxBorn({r \in Roots : roots[r].alive /\ roots[r].owner = t}) + 1

\* line 145: the value stored into root_.nextRoot
CtorNextRoot_asNull(t) == NullPtr

CtorNextRoot_asSelf(t) == NewRoot

CtorNextRoot(t) == get(t)

\* lines 144-145: the object is constructed, setStackFrameContext has run and
\* root_.nextRoot is read from the holder; the object is not yet reachable from
\* the holder, so the two writes are one step
CtorBegin(t, isResume) ==
    /\ FreeRoots # {}
    /\ roots' = [roots EXCEPT ![NewRoot] =
                    [NoRoot EXCEPT !.alive = TRUE, !.owner = t,
                                   !.resume = isResume, !.ctx = TRUE,
                                   !.nextRoot = CtorNextRoot(t), !.nextSet = TRUE,
                                   !.before = get(t), !.born = NextBorn(t)]]
    /\ arg' = [arg EXCEPT ![t] = NewRoot]
    /\ pc' = [pc EXCEPT ![t] = "ctor_set"]

ScopedCtorCall(t) ==
    /\ ~Aborted
    /\ CountCall
    /\ pc[t] = "idle"
    /\ HolderReady(t)
    /\ CtorBegin(t, FALSE)
    /\ UNCHANGED <<tls, kIsDebug, value, stackRoot, registry, lock, old, ret, calls,
                   visited, hist, leafLog>>

\* line 146: the value the constructor stores, &root_
CtorInstall_asCurrent(t) == get(t)

CtorInstall(t) == arg[t]

\* lines 146-147: currentThreadAsyncStackRoot.set(&root_), and the constructor
\* returns
CtorSet(t) ==
    /\ ~Aborted
    /\ pc[t] = "ctor_set"
    /\ value' = [value EXCEPT ![currentThreadAsyncStackRoot(t)] = CtorInstall(t)]
    /\ roots' = set(t, [roots EXCEPT ![arg[t]].installed = TRUE])
    /\ pc' = [pc EXCEPT ![t] =
                 IF roots[arg[t]].resume THEN "res_activate" ELSE "idle"]
    /\ arg' = [arg EXCEPT ![t] = IF roots[arg[t]].resume THEN @ ELSE NullPtr]
    /\ UNCHANGED <<tls, ncalls, kIsDebug, stackRoot, registry, lock, old, ret, calls,
                   visited, hist, leafLog>>

\* line 150: assert(currentThreadAsyncStackRoot.get() == &root_)
DtorOrderOk_asTrue(t, r) == TRUE

DtorOrderOk(t, r) == get(t) = r

\* line 151: assert(root_.topFrame.load(relaxed) == nullptr)
DtorTopFrameOk_asTrue(r) == TRUE

DtorTopFrameOk(r) == roots[r].topFrame = NullPtr

\* lines 150-151: where thread t is when the destructor of r has evaluated its
\* two assert() lines, which exist in debug builds only
DtorEntry(t, r) ==
    IF kIsDebug /\ ~DtorOrderOk(t, r) THEN "abort_dtor_order"
    ELSE IF kIsDebug /\ ~DtorTopFrameOk(r) THEN "abort_dtor_topframe"
    ELSE "dtor_set"

\* ~ScopedAsyncStackRoot of a root that was not made by the resume entry point
ScopedDtorCall(t, r) ==
    /\ ~Aborted
    /\ CountCall
    /\ pc[t] = "idle"
    /\ r \in LiveRoots(t)
    /\ ~roots[r].resume
    /\ arg' = [arg EXCEPT ![t] = r]
    /\ pc' = [pc EXCEPT ![t] = DtorEntry(t, r)]
    /\ UNCHANGED <<tls, kIsDebug, value, roots, stackRoot, registry, lock, old, ret,
                   calls, visited, hist, leafLog>>

\* line 152: the value the destructor stores back
DtorRestore_asNull(r) == NullPtr

DtorRestore(r) == roots[r].nextRoot

DtorSet(t) ==
    /\ ~Aborted
    /\ pc[t] = "dtor_set"
    /\ value' = [value EXCEPT ![currentThreadAsyncStackRoot(t)] = DtorRestore(arg[t])]
    /\ roots' = set_relaxed(t, roots)
    /\ pc' = [pc EXCEPT ![t] =
                 IF roots[arg[t]].resume THEN "res_ret" ELSE "dtor_ret"]
    /\ UNCHANGED <<tls, ncalls, kIsDebug, stackRoot, registry, lock, arg, old, ret, calls,
                   visited, hist, leafLog>>

\* A call returns to its caller; a destroyed root's storage is free again.
Return(t) ==
    /\ ~Aborted
    /\ pc[t] \in RetPcs
    /\ pc' = [pc EXCEPT ![t] = "idle"]
    /\ roots' = IF pc[t] \in {"dtor_ret", "res_ret"}
                THEN [roots EXCEPT ![arg[t]] = NoRoot]
                ELSE roots
    /\ calls' = IF pc[t] = "res_ret"
                THEN [calls EXCEPT ![t] = SubSeq(@, 1, Len(@) - 1)]
                ELSE calls
    /\ arg' = [arg EXCEPT ![t] = NullPtr]
    /\ old' = [old EXCEPT ![t] = NullPtr]
    /\ ret' = [ret EXCEPT ![t] = NullPtr]
    /\ hist' = [hist EXCEPT ![t] = NoHist]
    /\ UNCHANGED <<tls, ncalls, kIsDebug, value, stackRoot, registry, lock, visited,
                   leafLog>>

\* ------------------------------------ exchangeCurrentAsyncStackRoot

\* line 135: oldStackRoot = currentThreadAsyncStackRoot.get()
ExchangeCall(t, newRoot) ==
    /\ ~Aborted
    /\ CountCall
    /\ pc[t] = "idle"
    /\ HolderReady(t)
    /\ newRoot \in {NullPtr} \cup LiveRoots(t)
    /\ old' = [old EXCEPT ![t] = get(t)]
    /\ arg' = [arg EXCEPT ![t] = newRoot]
    /\ pc' = [pc EXCEPT ![t] = "exch_set"]
    /\ UNCHANGED <<tls, kIsDebug, value, roots, stackRoot, registry, lock, ret,
                   calls, visited, hist, leafLog>>

\* line 137: return oldStackRoot
ExchangeResult_asNewRoot(t) == arg[t]

ExchangeResult(t) == old[t]

\* line 136: currentThreadAsyncStackRoot.set(newRoot), then the return
ExchangeSet(t) ==
    /\ ~Aborted
    /\ pc[t] = "exch_set"
    /\ hist' = [hist EXCEPT ![t].over = get(t)]
    /\ value' = [value EXCEPT ![currentThreadAsyncStackRoot(t)] = arg[t]]
    /\ roots' = set(t, roots)
    /\ ret' = [ret EXCEPT ![t] = ExchangeResult(t)]
    /\ pc' = [pc EXCEPT ![t] = "exch_ret"]
    /\ UNCHANGED <<tls, ncalls, kIsDebug, stackRoot, registry, lock, arg, old, calls,
                   visited, leafLog>>

\* ----------------------------------------- getCurrentAsyncStackRoot

\* line 179: assert(root != nullptr)
GetCurrentOk_asTrue(root) == TRUE

GetCurrentOk(root) == root # NullPtr

\* line 180: return *root.  Of a null root the expression is undefined: the
\* caller gets a reference to no object, or to any.
GetCurrentResults(root) ==
    IF root # NullPtr THEN {root} ELSE {NullPtr} \cup Roots

\* lines 177-181: the load, the assert of debug builds, the return
GetCurrentCall(t) ==
    LET root == tryGetCurrentAsyncStackRoot(t)
    IN  /\ ~Aborted
        /\ pc[t] = "idle"
        /\ HolderReady(t)
        /\ IF kIsDebug /\ ~GetCurrentOk(root)
           THEN /\ pc' = [pc EXCEPT ![t] = "abort_get_current"]
                /\ ret' = ret
           ELSE /\ pc' = [pc EXCEPT ![t] = "get_ret"]
                /\ \E x \in GetCurrentResults(root) :
                      ret' = [ret EXCEPT ![t] = x]
        /\ UNCHANGED <<tls, ncalls, kIsDebug, value, roots, stackRoot, registry, lock,
                       arg, old, calls, visited, hist, leafLog>>

\* ---------------------------- resumeCoroutineWithNewAsyncStackRoot

\* line 199: detail::ScopedAsyncStackRoot root;
ResumeCall(t, f) ==
    /\ ~Aborted
    /\ CountCall
    /\ pc[t] = "idle"
    /\ HolderReady(t)
    /\ ~FrameBusyElsewhere(t, f)
    /\ CtorBegin(t, TRUE)
    /\ calls' = [calls EXCEPT ![t] = Append(@, [root |-> NewRoot, frame |-> f])]
    /\ UNCHANGED <<tls, kIsDebug, value, stackRoot, registry, lock, old, ret,
                   visited, hist, leafLog>>

\* line 200: root.activateFrame(frame), then line 201: h.resume() begins.
\* The body of activateFrame is in AsyncStack-inl.h: it asserts that the root
\* is current, that its topFrame is empty and that the frame is unset, and
\* links the two.
ResumeActivateFrame(t) ==
    LET r == arg[t]
        f == calls[t][Len(calls[t])].frame
    IN  /\ ~Aborted
        /\ pc[t] = "res_activate"
        /\ IF kIsDebug /\ ~(get(t) = r /\ roots[r].topFrame = NullPtr
                                      /\ stackRoot[f] = NullPtr)
           THEN /\ pc' = [pc EXCEPT ![t] = "abort_activate_frame"]
                /\ UNCHANGED <<roots, stackRoot, arg>>
           ELSE /\ stackRoot' = [stackRoot EXCEPT ![f] = r]
                /\ roots' = [roots EXCEPT ![r].topFrame = f]
                /\ arg' = [arg EXCEPT ![t] = NullPtr]
                /\ pc' = [pc EXCEPT ![t] = "idle"]
        /\ UNCHANGED <<tls, ncalls, kIsDebug, value, registry, lock, old, ret, calls,
                       visited, hist, leafLog>>

\* The resumed coroutine suspends or completes: it unlinks its frame from the
\* current root (deactivateAsyncStackFrame of AsyncStack-inl.h).
DeactivateFrame(t, f) ==
    /\ ~Aborted
    /\ CountCall
    /\ pc[t] = "idle"
    /\ get(t) \in LiveRoots(t)
    /\ stackRoot[f] = get(t)
    /\ roots[get(t)].topFrame = f
    /\ roots' = [roots EXCEPT ![get(t)].topFrame = NullPtr]
    /\ stackRoot' = [stackRoot EXCEPT ![f] = NullPtr]
    /\ UNCHANGED <<tls, kIsDebug, value, registry, lock, pc, arg, old, ret, calls,
                   visited, hist, leafLog>>

\* line 202: h.resume() has returned; root's destructor runs
ResumeReturn(t) ==
    /\ ~Aborted
    /\ pc[t] = "idle"
    /\ calls[t] # <<>>
    /\ arg' = [arg EXCEPT ![t] = calls[t][Len(calls[t])].root]
    /\ pc' = [pc EXCEPT ![t] = DtorEntry(t, calls[t][Len(calls[t])].root)]
    /\ UNCHANGED <<tls, ncalls, kIsDebug, value, roots, stackRoot, registry, lock, old, ret,
                   calls, visited, hist, leafLog>>

\* ------------------------------------------- suspended leaf frames

\* Synchronized<...>::wlock(): exclusive
WLockAvailable_asUnlocked == TRUE

WLockAvailable == lock.writers = {} /\ lock.readers = {}

\* Synchronized<...>::withRLock(): shared with other readers
RLockAvailable_asExclusive == lock.writers = {} /\ lock.readers = {}

RLockAvailable_asUnlocked == TRUE

RLockAvailable == lock.writers = {}

\* lines 222-223: the value activateSuspendedLeaf stores into stackRoot
ActivateValue_asNull == NullPtr

ActivateValue == Cookie

\* line 238: the value deactivateSuspendedLeaf stores into stackRoot
DeactivateValue == NullPtr

\* line 225: insert(std::addressof(leafFrame))
RegistryInsert_asNothing(s, f) == s

RegistryInsert(s, f) == s \cup {f}

\* line 240: erase(std::addressof(leafFrame))
RegistryErase_asNothing(s, f) == s

RegistryErase(s, f) == s \ {f}

\* isSuspendedLeafActive, lines 229-232
isSuspendedLeafActive(f) == stackRoot[f] = Cookie

\* lines 224 and 239: if constexpr (folly::kIsDebug)
TrackingEnabled_asAlways == TRUE

TrackingEnabled == kIsDebug

\* line 221: assert(leafFrame.stackRoot == nullptr)
ActivateAssertOk_asTrue(f) == TRUE

ActivateAssertOk(f) == stackRoot[f] = NullPtr

\* lines 235-237: assert(leafFrame.stackRoot == cookie)
DeactivateAssertOk(f) == stackRoot[f] = Cookie

\* lines 221-224: the assert, the store of the cookie, the build's branch
ActivateCall(t, f) ==
    /\ ~Aborted
    /\ pc[t] = "idle"
    /\ ~FrameBusyElsewhere(t, f)
    /\ arg' = [arg EXCEPT ![t] = f]
    /\ IF kIsDebug /\ ~ActivateAssertOk(f)
       THEN /\ pc' = [pc EXCEPT ![t] = "abort_activate_leaf"]
            /\ UNCHANGED <<stackRoot, leafLog>>
       ELSE /\ stackRoot' = [stackRoot EXCEPT ![f] = ActivateValue]
            /\ pc' = [pc EXCEPT ![t] =
                         IF TrackingEnabled THEN "act_lock" ELSE "act_ret"]
            /\ leafLog' = IF TrackingEnabled THEN leafLog ELSE leafLog \cup {f}
    /\ UNCHANGED <<tls, ncalls, kIsDebug, value, roots, registry, lock, old, ret, calls,
                   visited, hist>>

\* line 225: wlock()
ActivateLock(t) ==
    /\ ~Aborted
    /\ pc[t] = "act_lock"
    /\ WLockAvailable
    /\ lock' = [lock EXCEPT !.writers = {t}]
    /\ pc' = [pc EXCEPT ![t] = "act_insert"]
    /\ UNCHANGED <<tls, ncalls, kIsDebug, value, roots, stackRoot, registry, arg, old, ret,
                   calls, visited, hist, leafLog>>

\* line 225: insert, and the lock is released at the end of the statement
ActivateInsert(t) ==
    /\ ~Aborted
    /\ pc[t] = "act_insert"
    /\ registry' = RegistryInsert(registry, arg[t])
    /\ lock' = [lock EXCEPT !.writers = @ \ {t}]
    /\ leafLog' = leafLog \cup {arg[t]}
    /\ pc' = [pc EXCEPT ![t] = "act_ret"]
    /\ UNCHANGED <<tls, ncalls, kIsDebug, value, roots, stackRoot, arg, old, ret, calls,
                   visited, hist>>

\* lines 235-239: the assert, the store of nullptr, the build's branch
DeactivateCall(t, f) ==
    /\ ~Aborted
    /\ pc[t] = "idle"
    /\ ~FrameBusyElsewhere(t, f)
    /\ arg' = [arg EXCEPT ![t] = f]
    /\ IF kIsDebug /\ ~DeactivateAssertOk(f)
       THEN /\ pc' = [pc EXCEPT ![t] = "abort_deactivate_leaf"]
            /\ UNCHANGED <<stackRoot, leafLog>>
       ELSE /\ stackRoot' = [stackRoot EXCEPT ![f] = DeactivateValue]
            /\ pc' = [pc EXCEPT ![t] =
                         IF TrackingEnabled THEN "deact_lock" ELSE "deact_ret"]
            /\ leafLog' = IF TrackingEnabled THEN leafLog ELSE leafLog \ {f}
    /\ UNCHANGED <<tls, ncalls, kIsDebug, value, roots, registry, lock, old, ret, calls,
                   visited, hist>>

\* line 240: wlock()
DeactivateLock(t) ==
    /\ ~Aborted
    /\ pc[t] = "deact_lock"
    /\ WLockAvailable
    /\ lock' = [lock EXCEPT !.writers = {t}]
    /\ pc' = [pc EXCEPT ![t] = "deact_erase"]
    /\ UNCHANGED <<tls, ncalls, kIsDebug, value, roots, stackRoot, registry, arg, old, ret,
                   calls, visited, hist, leafLog>>

\* line 240: erase, and the lock is released at the end of the statement
DeactivateErase(t) ==
    /\ ~Aborted
    /\ pc[t] = "deact_erase"
    /\ registry' = RegistryErase(registry, arg[t])
    /\ lock' = [lock EXCEPT !.writers = @ \ {t}]
    /\ leafLog' = leafLog \ {arg[t]}
    /\ pc' = [pc EXCEPT ![t] = "deact_ret"]
    /\ UNCHANGED <<tls, ncalls, kIsDebug, value, roots, stackRoot, arg, old, ret, calls,
                   visited, hist>>

\* ------------------------------------------ sweepSuspendedLeafFrames

Range(seq) == {seq[i] : i \in DOMAIN seq}

\* line 244: the call
SweepCall(t) ==
    /\ ~Aborted
    /\ pc[t] = "idle"
    /\ pc' = [pc EXCEPT ![t] = "sw_lock"]
    /\ UNCHANGED <<tls, ncalls, kIsDebug, value, roots, stackRoot, registry, lock, arg, old,
                   ret, calls, visited, hist, leafLog>>

\* line 245: withRLock takes the lock in shared mode
SweepLock(t) ==
    /\ ~Aborted
    /\ pc[t] = "sw_lock"
    /\ RLockAvailable
    /\ lock' = [lock EXCEPT !.readers = @ \cup {t}]
    /\ pc' = [pc EXCEPT ![t] = "sw_visit"]
    /\ UNCHANGED <<tls, ncalls, kIsDebug, value, roots, stackRoot, registry, arg, old, ret,
                   calls, visited, hist, leafLog>>

\* line 246: std::for_each calls fn with the next element, in the set's order
SweepVisit(t) ==
    /\ ~Aborted
    /\ pc[t] = "sw_visit"
    /\ \E f \in registry \ Range(visited[t]) :
          visited' = [visited EXCEPT ![t] = Append(@, f)]
    /\ UNCHANGED <<tls, ncalls, kIsDebug, value, roots, stackRoot, registry, lock, pc, arg,
                   old, ret, calls, hist, leafLog>>

\* line 246: the iterator has reached end()
SweepEnd(t) ==
    /\ ~Aborted
    /\ pc[t] = "sw_visit"
    /\ registry \ Range(visited[t]) = {}
    /\ pc' = [pc EXCEPT ![t] = "sw_unlock"]
    /\ UNCHANGED <<tls, ncalls, kIsDebug, value, roots, stackRoot, registry, lock, arg, old,
                   ret, calls, visited, hist, leafLog>>

\* lines 247-248: the lambda returns, withRLock releases the lock, the sweep
\* returns
SweepUnlock(t) ==
    /\ ~Aborted
    /\ pc[t] = "sw_unlock"
    /\ lock' = [lock EXCEPT !.readers = @ \ {t}]
    /\ visited' = [visited EXCEPT ![t] = <<>>]
    /\ pc' = [pc EXCEPT ![t] = "idle"]
    /\ UNCHANGED <<tls, ncalls, kIsDebug, value, roots, stackRoot, registry, arg, old, ret,
                   calls, hist, leafLog>>

\* ------------------------------------------------- a signal handler

\* A signal handler that runs on thread t, between two steps of the code it
\* interrupts, and calls exchangeCurrentAsyncStackRoot(newRoot) to completion.
SignalExchange(t, newRoot) ==
    /\ ~Aborted
    /\ CountCall
    /\ HolderReady(t)
    /\ newRoot \in {NullPtr} \cup LiveRoots(t)
    /\ value' = [value EXCEPT ![currentThreadAsyncStackRoot(t)] = newRoot]
    /\ roots' = set(t, roots)
    /\ hist' = [hist EXCEPT ![t].sig = @ \/ pc[t] = "exch_set"]
    /\ UNCHANGED <<tls, kIsDebug, stackRoot, registry, lock, pc, arg, old, ret,
                   calls, visited, leafLog>>

\* ------------------------------------------------ scoped discipline

\* The root of thread t that was constructed last among those that live: the
\* object whose scope a C++ block must leave first.
IsNewest(t, r) ==
    /\ r \in LiveRoots(t)
    /\ \A q \in LiveRoots(t) : roots[q].born <= roots[r].born

\* The end of the innermost scope that declares a ScopedAsyncStackRoot
LifoDtorCall(t) ==
    \E r \in Roots : IsNewest(t, r) /\ ScopedDtorCall(t, r)

\* h.resume() returns when the resumed work has left every scope it entered
LifoResumeReturn(t) ==
    /\ calls[t] # <<>>
    /\ IsNewest(t, calls[t][Len(calls[t])].root)
    /\ ResumeReturn(t)

\* --------------------------------------------------- specifications

\* The whole program: every operation, on every thread.
Next ==
    \/ \E t \in Threads : ScopedCtorCall(t)
    \/ \E t \in Threads : CtorSet(t)
    \/ \E t \in Threads, r \in Roots : ScopedDtorCall(t, r)
    \/ \E t \in Threads : DtorSet(t)
    \/ \E t \in Threads : Return(t)
    \/ \E t \in Threads, x \in Roots \cup {NullPtr} : ExchangeCall(t, x)
    \/ \E t \in Threads : ExchangeSet(t)
    \/ \E t \in Threads, f \in Frames : ResumeCall(t, f)
    \/ \E t \in Threads : ResumeActivateFrame(t)
    \/ \E t \in Threads, f \in Frames : DeactivateFrame(t, f)
    \/ \E t \in Threads : ResumeReturn(t)
    \/ \E t \in Threads, f \in Frames : ActivateCall(t, f)
    \/ \E t \in Threads : ActivateLock(t)
    \/ \E t \in Threads : ActivateInsert(t)
    \/ \E t \in Threads, f \in Frames : DeactivateCall(t, f)
    \/ \E t \in Threads : DeactivateLock(t)
    \/ \E t \in Threads : DeactivateErase(t)
    \/ \E t \in Threads : SweepCall(t)
    \/ \E t \in Threads : SweepLock(t)
    \/ \E t \in Threads : SweepVisit(t)
    \/ \E t \in Threads : SweepEnd(t)
    \/ \E t \in Threads : SweepUnlock(t)
    \/ \E t \in Threads : GetCurrentCall(t)

Spec == Init /\ [][Next]_vars

\* The root operations alone: scoped roots, exchange and the resume entry
\* point, on every thread.
NextRoots ==
    \/ \E t \in Threads : ScopedCtorCall(t)
    \/ \E t \in Threads : CtorSet(t)
    \/ \E t \in Threads, r \in Roots : ScopedDtorCall(t, r)
    \/ \E t \in Threads : DtorSet(t)
    \/ \E t \in Threads : Return(t)
    \/ \E t \in Threads, x \in Roots \cup {NullPtr} : ExchangeCall(t, x)
    \/ \E t \in Threads : ExchangeSet(t)
    \/ \E t \in Threads, f \in Frames : ResumeCall(t, f)
    \/ \E t \in Threads : ResumeActivateFrame(t)
    \/ \E t \in Threads, f \in Frames : DeactivateFrame(t, f)
    \/ \E t \in Threads : ResumeReturn(t)

SpecRoots == Init /\ [][NextRoots]_vars

\* The suspended-leaf operations alone, on every thread, in runs of any length.
NextLeaves ==
    \/ \E t \in Threads, f \in Frames : ActivateCall(t, f)
    \/ \E t \in Threads : ActivateLock(t)
    \/ \E t \in Threads : ActivateInsert(t)
    \/ \E t \in Threads, f \in Frames : DeactivateCall(t, f)
    \/ \E t \in Threads : DeactivateLock(t)
    \/ \E t \in Threads : DeactivateErase(t)
    \/ \E t \in Threads : SweepCall(t)
    \/ \E t \in Threads : SweepLock(t)
    \/ \E t \in Threads : SweepVisit(t)
    \/ \E t \in Threads : SweepEnd(t)
    \/ \E t \in Threads : SweepUnlock(t)
    \/ \E t \in Threads : Return(t)

SpecLeaves == Init /\ [][NextLeaves]_vars

\* Scoped roots and exchange with a signal handler that writes the
\* interrupted thread's current root.
NextSignal ==
    \/ \E t \in Threads : ScopedCtorCall(t)
    \/ \E t \in Threads : CtorSet(t)
    \/ \E t \in Threads, r \in Roots : ScopedDtorCall(t, r)
    \/ \E t \in Threads : DtorSet(t)
    \/ \E t \in Threads : Return(t)
    \/ \E t \in Threads, x \in Roots \cup {NullPtr} : ExchangeCall(t, x)
    \/ \E t \in Threads : ExchangeSet(t)
    \/ \E t \in Threads, x \in Roots \cup {NullPtr} : SignalExchange(t, x)

SpecSignal == Init /\ [][NextSignal]_vars

\* Scoped roots and exchange, with callers that ask for the current root by
\* getCurrentAsyncStackRoot.
NextGet ==
    \/ \E t \in Threads : ScopedCtorCall(t)
    \/ \E t \in Threads : CtorSet(t)
    \/ \E t \in Threads, r \in Roots : ScopedDtorCall(t, r)
    \/ \E t \in Threads : DtorSet(t)
    \/ \E t \in Threads : Return(t)
    \/ \E t \in Threads, x \in Roots \cup {NullPtr} : ExchangeCall(t, x)
    \/ \E t \in Threads : ExchangeSet(t)
    \/ \E t \in Threads : GetCurrentCall(t)

SpecGet == Init /\ [][NextGet]_vars

\* Frames that run under the root of the resume entry point and frames that
\* are suspended leaves: the resume entry point up to the work it resumes, and
\* the leaf operations, which the resumed work or any other code calls.
NextLeafRoots ==
    \/ \E t \in Threads, f \in Frames : ResumeCall(t, f)
    \/ \E t \in Threads : CtorSet(t)
    \/ \E t \in Threads : ResumeActivateFrame(t)
    \/ \E t \in Threads : Return(t)
    \/ \E t \in Threads, f \in Frames : ActivateCall(t, f)
    \/ \E t \in Threads : ActivateLock(t)
    \/ \E t \in Threads : ActivateInsert(t)
    \/ \E t \in Threads, f \in Frames : DeactivateCall(t, f)
    \/ \E t \in Threads : DeactivateLock(t)
    \/ \E t \in Threads : DeactivateErase(t)

SpecLeafRoots == Init /\ [][NextLeafRoots]_vars

\* The process from its start: every thread constructs its holder at its
\* first use, and then installs, exchanges and uninstalls roots.
NextTls ==
    \/ \E t \in Threads : HolderCtorCall(t)
    \/ \E t \in Threads : TlsOnce(t)
    \/ \E t \in Threads : TlsKeyCreate(t)
    \/ \E t \in Threads : TlsSetSpecific(t)
    \/ \E t \in Threads : HolderCtorReturn(t)
    \/ \E t \in Threads : ScopedCtorCall(t)
    \/ \E t \in Threads : CtorSet(t)
    \/ \E t \in Threads, r \in Roots : ScopedDtorCall(t, r)
    \/ \E t \in Threads : DtorSet(t)
    \/ \E t \in Threads : Return(t)
    \/ \E t \in Threads, x \in Roots \cup {NullPtr} : ExchangeCall(t, x)
    \/ \E t \in Threads : ExchangeSet(t)

SpecTls == InitTls /\ [][NextTls]_vars

\* Roots introduced by ScopedAsyncStackRoot only (on its own and inside the
\* resume entry point), each destroyed when its scope ends: in reverse order
\* of construction.
NextLifo ==
    \/ \E t \in Threads : ScopedCtorCall(t)
    \/ \E t \in Threads : CtorSet(t)
    \/ \E t \in Threads : LifoDtorCall(t)
    \/ \E t \in Threads : DtorSet(t)
    \/ \E t \in Threads : Return(t)
    \/ \E t \in Threads, f \in Frames : ResumeCall(t, f)
    \/ \E t \in Threads : ResumeActivateFrame(t)
    \/ \E t \in Threads, f \in Frames : DeactivateFrame(t, f)
    \/ \E t \in Threads : LifoResumeReturn(t)

SpecLifo == Init /\ [][NextLifo]_vars

TypeOK ==
    /\ kIsDebug \in BOOLEAN
    /\ value \in [Threads -> Roots \cup {NullPtr}]
    /\ stackRoot \in [Frames -> Roots \cup {NullPtr, Cookie}]
    /\ registry \subseteq Frames
    /\ lock.writers \subseteq Threads
    /\ lock.readers \subseteq Threads
    /\ leafLog \subseteq Frames
    /\ ncalls \in 0..MaxCalls
    /\ tls.pthread \in BOOLEAN
    /\ tls.once \in {"init", "running", "done"}
    /\ tls.key \in {"invalid", "created"}
    /\ tls.slot \in [Threads -> Threads \cup {NullPtr}]
    /\ tls.holder \in [Threads -> {"none", "ctor", "done"}]
    /\ tls.logged \in BOOLEAN

\* ============================================================ claims

\* A call of activateSuspendedLeaf or deactivateSuspendedLeaf on frame f has
\* stored the frame's root field and has not yet updated the registry.
LeafCallInProgress(f) ==
    \E t \in Threads :
        /\ pc[t] \in {"act_lock", "act_insert", "deact_lock", "deact_erase"}
        /\ arg[t] = f

\* C1: when ~ScopedAsyncStackRoot has run (in any order of destruction, so in
\* particular in reverse order of construction), the thread's current root is
\* the value it had immediately before the matching constructor ran.
C1_LifoRestore ==
    \A t \in Threads :
        pc[t] = "dtor_ret" => value[t] = roots[arg[t]].before

\* An inner scoped root was destroyed and the outer, still installed, is
\* current again.
C1_Witness ==
    \E t \in Threads :
        /\ pc[t] = "dtor_ret"
        /\ roots[arg[t]].before \in LiveRoots(t)
        /\ value[t] = roots[arg[t]].before

\* C2: when resumeCoroutineWithNewAsyncStackRoot returns, the thread's current
\* root is the value R it had when the entry point was called, whatever the
\* resumed work did.
C2_ResumeTransparent ==
    \A t \in Threads :
        pc[t] = "res_ret" => value[t] = roots[arg[t]].before

\* The entry point was called under an installed root R and has returned.
C2_Witness ==
    \E t \in Threads :
        /\ pc[t] = "res_ret"
        /\ roots[arg[t]].before \in LiveRoots(t)
        /\ value[t] = roots[arg[t]].before

\* C3: isSuspendedLeafActive is false of an unset frame, true when
\* activateSuspendedLeaf has run, and false when deactivateSuspendedLeaf has
\* run, which leaves the frame as a never activated frame is: root field
\* unset and not in the registry, so that it can be activated again.
C3_LeafRoundTrip ==
    /\ \A f \in Frames : stackRoot[f] = NullPtr => ~isSuspendedLeafActive(f)
    /\ \A t \in Threads :
          pc[t] \in {"act_lock", "act_insert", "act_ret"}
              => isSuspendedLeafActive(arg[t])
    /\ \A t \in Threads :
          pc[t] = "deact_ret"
              => /\ ~isSuspendedLeafActive(arg[t])
                 /\ stackRoot[arg[t]] = NullPtr
                 /\ arg[t] \notin registry

\* One frame has been activated and deactivated, another is activated.
C3_Witness ==
    \E t, u \in Threads :
        /\ pc[t] = "deact_ret" /\ ~isSuspendedLeafActive(arg[t])
        /\ pc[u] = "act_ret" /\ isSuspendedLeafActive(arg[u])

\* C4: in a debug build a sweep invokes its visitor only with frames that
\* were activated and not since deactivated, with none of them twice, and when
\* its iteration ends it has visited every one of them.
C4_SweepExact ==
    kIsDebug =>
        \A t \in Threads :
            /\ pc[t] \in {"sw_visit", "sw_unlock"}
                  => /\ Range(visited[t]) \subseteq leafLog
                     /\ Cardinality(Range(visited[t])) = Len(visited[t])
            /\ pc[t] = "sw_unlock"
                  => /\ Range(visited[t]) = leafLog
                     /\ Len(visited[t]) = Cardinality(leafLog)

\* A sweep has visited two frames; and a sweep after a deactivation has
\* visited the one frame that is left.
C4_Witness ==
    /\ kIsDebug
    /\ \E t \in Threads :
          /\ pc[t] = "sw_unlock"
          /\ Len(visited[t]) = 1
          /\ \E u \in Threads : pc[u] = "deact_ret" /\ arg[u] \notin Range(visited[t])

\* C5 as claimed (read for the debug build, where the registry is kept): in
\* every state, calls in progress or not, a frame is in the registry exactly
\* when its root field is the cookie.
C5_RegistryTracksAlways ==
    kIsDebug =>
        \A f \in Frames : f \in registry <=> stackRoot[f] = Cookie

\* C5, amended: in a debug build a frame on which no activateSuspendedLeaf or
\* deactivateSuspendedLeaf call is in progress is in the registry exactly when
\* its root field is the cookie.
C5_RegistryTracksQuiescent ==
    kIsDebug =>
        \A f \in Frames :
            ~LeafCallInProgress(f) => (f \in registry <=> stackRoot[f] = Cookie)

\* A frame is registered while a call on another frame is in progress.
C5_Witness ==
    /\ kIsDebug
    /\ \E f, g \in Frames :
          /\ f \in registry /\ stackRoot[f] = Cookie /\ ~LeafCallInProgress(f)
          /\ LeafCallInProgress(g)

\* C6: the destructor of the inner of two nested roots leaves the outer one
\* current; in a debug build a destructor gets to its store only of the
\* current root, and the ordering assertion fails with the pointer unchanged.
C6_NestedOrder ==
    \A t \in Threads :
        /\ (pc[t] = "dtor_ret" /\ roots[arg[t]].nextRoot \in LiveRoots(t))
              => value[t] = roots[arg[t]].nextRoot
        /\ (kIsDebug /\ pc[t] = "dtor_set") => value[t] = arg[t]
        /\ pc[t] = "abort_dtor_order"
              => kIsDebug /\ value[t] # arg[t]

\* The outer root's destructor ran while the inner root was current.
C6_Witness ==
    \E t \in Threads :
        /\ pc[t] = "abort_dtor_order"
        /\ value[t] \in LiveRoots(t)
        /\ roots[value[t]].nextRoot = arg[t]

\* C7: in a debug build the destructor gets to its store only of a root whose
\* topFrame is empty; of a root with a frame chained under it the assertion
\* fails and the root is still the thread's current root.
C7_TopFrameEmpty ==
    \A t \in Threads :
        /\ (kIsDebug /\ pc[t] \in {"dtor_set", "dtor_ret", "res_ret"})
              => roots[arg[t]].topFrame = NullPtr
        /\ pc[t] = "abort_dtor_topframe"
              => /\ kIsDebug
                 /\ roots[arg[t]].topFrame # NullPtr
                 /\ value[t] = arg[t]

\* The resumed work returned with its frame still chained under the root.
C7_Witness ==
    \E t \in Threads :
        /\ pc[t] = "abort_dtor_topframe"
        /\ roots[arg[t]].topFrame \in Frames
        /\ value[t] = arg[t]

\* C8 as claimed: the value exchangeCurrentAsyncStackRoot returns is the value
\* its store overwrote, whatever ran between its load and its store.
C8_ExchangeAtomic ==
    \A t \in Threads :
        pc[t] = "exch_ret" => ret[t] = hist[t].over

\* C8, amended: the value returned is the value the store overwrote when no
\* other write to the thread's pointer ran between the call's load and store.
C8_ExchangeUninterrupted ==
    \A t \in Threads :
        (pc[t] = "exch_ret" /\ ~hist[t].sig) => ret[t] = hist[t].over

\* An exchange that no handler interrupted returned the root it replaced.
C8_Witness ==
    \E t \in Threads :
        /\ pc[t] = "exch_ret"
        /\ ~hist[t].sig
        /\ ret[t] \in Roots
        /\ ret[t] # arg[t]
        /\ ret[t] = hist[t].over

\* C9: whenever a thread's current root is a scoped root that its constructor
\* has installed, the root's context and nextRoot were written and released
\* before the pointer was stored.
C9_PublishedInitialised ==
    \A t \in Threads :
        (value[t] \in Roots /\ roots[value[t]].alive /\ roots[value[t]].installed)
            => /\ roots[value[t]].ctx
               /\ roots[value[t]].nextSet
               /\ roots[value[t]].pub

\* A nested root is current, and so is, after a destructor's relaxed store,
\* the root installed before it.
C9_Witness ==
    \E t \in Threads :
        /\ pc[t] = "dtor_ret"
        /\ value[t] \in LiveRoots(t)
        /\ roots[value[t]].pub

\* C10: two sweeps that have both finished their iteration and still hold the
\* lock have visited the same frames; a sweep waits only for a writer.
C10_ConcurrentSweeps ==
    /\ \A t, u \in Threads :
          (pc[t] = "sw_unlock" /\ pc[u] = "sw_unlock")
              => Range(visited[t]) = Range(visited[u])
    /\ \A t \in Threads :
          (pc[t] = "sw_lock" /\ lock.writers = {} /\ ~Aborted)
              => ENABLED SweepLock(t)

\* Two sweeps hold the lock at once and have visited a frame.
C10_Witness ==
    \E t, u \in Threads :
        /\ t # u
        /\ pc[t] = "sw_unlock" /\ pc[u] = "sw_unlock"
        /\ visited[t] # <<>>
        /\ {t, u} \subseteq lock.readers

\* The threads that hold the registry's lock for writing, by their position
\* in activateSuspendedLeaf and deactivateSuspendedLeaf, and for reading, by
\* their position in sweepSuspendedLeafFrames.
RegistryWriters == {t \in Threads : pc[t] \in {"act_insert", "deact_erase"}}

RegistryReaders == {t \in Threads : pc[t] \in {"sw_visit", "sw_unlock"}}

\* C11: in a debug build no insert or erase of the registry overlaps with
\* another insert or erase, or with a sweep's iteration: at most one thread is
\* at an insert or erase, then no thread is inside a sweep's iteration, the
\* lock's state says who is where, and the frames a sweep has visited so far
\* are frames of the registry as it still is (all of them when the iteration
\* has ended), so the registry did not change under the sweep.
C11_RegistryExclusive ==
    kIsDebug =>
        /\ Cardinality(RegistryWriters) <= 1
        /\ RegistryWriters # {} => RegistryReaders = {}
        /\ lock.writers = RegistryWriters
        /\ lock.readers = RegistryReaders
        /\ \A t \in RegistryReaders :
              /\ Range(visited[t]) \subseteq registry
              /\ pc[t] = "sw_unlock" => Range(visited[t]) = registry

\* A sweep is inside its iteration, having visited a frame, while a call of
\* activateSuspendedLeaf or deactivateSuspendedLeaf waits for the lock.
C11_Witness ==
    /\ kIsDebug
    /\ \E t, u \in Threads :
          /\ pc[t] = "sw_visit" /\ visited[t] # <<>>
          /\ pc[u] \in {"act_lock", "deact_lock"}
          /\ ~ENABLED ActivateLock(u) /\ ~ENABLED DeactivateLock(u)

\* The scoped roots of thread t whose constructor has returned and whose
\* destructor has not yet stored the previous root back.
ScopedOn(t) ==
    {r \in LiveRoots(t) : ~(pc[t] \in {"dtor_ret", "res_ret"} /\ arg[t] = r)}

\* C12: on a thread with no scoped root installed, be it fresh or be its one
\* scoped root destroyed again, tryGetCurrentAsyncStackRoot returns none; on a
\* thread with one scoped root installed it returns that root.
C12_TryGetFollowsInstall ==
    \A t \in Threads :
        /\ ScopedOn(t) = {} => tryGetCurrentAsyncStackRoot(t) = NullPtr
        /\ \A r \in Roots :
              ScopedOn(t) = {r} => tryGetCurrentAsyncStackRoot(t) = r

\* A thread's first scoped root was installed, as its pointer then said, and
\* is destroyed: the thread has none again, while another thread has its own.
C12_Witness ==
    \E t, u \in Threads :
        /\ pc[t] = "dtor_ret"
        /\ roots[arg[t]].before = NullPtr
        /\ roots[arg[t]].nextRoot = NullPtr
        /\ ScopedOn(t) = {}
        /\ tryGetCurrentAsyncStackRoot(t) = NullPtr
        /\ u # t
        /\ ScopedOn(u) # {}
        /\ tryGetCurrentAsyncStackRoot(u) \in ScopedOn(u)

\* The step in which thread t calls getCurrentAsyncStackRoot.
GetCurrentStep(t) ==
    pc[t] = "idle" /\ pc'[t] \in {"get_ret", "abort_get_current"}

\* C13: a call of getCurrentAsyncStackRoot on a thread with a root installed
\* returns the root tryGetCurrentAsyncStackRoot returns; on a thread with none
\* installed it fails its assertion in a debug build; in both cases every
\* thread's current root is after the call what it was before.
C13_GetCurrent ==
    [][\A t \in Threads :
          GetCurrentStep(t) =>
              /\ tryGetCurrentAsyncStackRoot(t) # NullPtr
                    => /\ pc'[t] = "get_ret"
                       /\ ret'[t] = tryGetCurrentAsyncStackRoot(t)
                       /\ value' = value
              /\ (tryGetCurrentAsyncStackRoot(t) = NullPtr /\ kIsDebug)
                    => /\ pc'[t] = "abort_get_current"
                       /\ value' = value]_vars

\* One thread got its installed root from getCurrentAsyncStackRoot, another
\* called it with none installed and failed the assertion.
C13_Witness ==
    \E t, u \in Threads :
        /\ pc[t] = "get_ret"
        /\ ret[t] \in LiveRoots(t)
        /\ ret[t] = tryGetCurrentAsyncStackRoot(t)
        /\ pc[u] = "abort_get_current"
        /\ tryGetCurrentAsyncStackRoot(u) = NullPtr

\* The step in which thread t calls activateSuspendedLeaf.
ActivateStep(t) ==
    /\ pc[t] = "idle"
    /\ pc'[t] \in {"act_lock", "act_ret", "abort_activate_leaf"}

\* The step in which thread t calls deactivateSuspendedLeaf.
DeactivateStep(t) ==
    /\ pc[t] = "idle"
    /\ pc'[t] \in {"deact_lock", "deact_ret", "abort_deactivate_leaf"}

\* C14: in a debug build a call of activateSuspendedLeaf on a frame whose
\* root field is not unset, and a call of deactivateSuspendedLeaf on a frame
\* whose root field is not the cookie, fail their assertion with every
\* frame's root field and the registry unchanged; so a call that activates a
\* frame is never on a frame that was activated and not since deactivated.
C14_LeafAsserts ==
    /\ [](kIsDebug =>
             \A t \in Threads :
                 pc[t] \in {"act_lock", "act_insert"} => arg[t] \notin leafLog)
    /\ [][kIsDebug =>
             \A t \in Threads :
                 /\ (ActivateStep(t) /\ stackRoot[arg'[t]] # NullPtr)
                       => /\ pc'[t] = "abort_activate_leaf"
                          /\ stackRoot' = stackRoot
                          /\ registry' = registry
                 /\ (DeactivateStep(t) /\ stackRoot[arg'[t]] # Cookie)
                       => /\ pc'[t] = "abort_deactivate_leaf"
                          /\ stackRoot' = stackRoot
                          /\ registry' = registry]_vars

\* activateSuspendedLeaf failed its assertion on a frame that was running
\* under the root of the resume entry point, and is still bound to it.
C14_WitnessBound ==
    \E t \in Threads :
        /\ pc[t] = "abort_activate_leaf"
        /\ stackRoot[arg[t]] \in Roots
        /\ roots[stackRoot[arg[t]]].topFrame = arg[t]
        /\ arg[t] \notin registry

\* Thread t has begun or finished a root operation: it is inside one, or has
\* a root constructed, or its pointer is set.
RootOperationRan(t) ==
    \/ pc[t] \in {"ctor_set", "dtor_set", "dtor_ret", "exch_set", "exch_ret"}
    \/ \E r \in Roots : roots[r].alive /\ roots[r].owner = t
    \/ value[t] # NullPtr

\* C15: on a platform that uses the pthread key, a failure to create the key
\* or to register a thread's holder under it has been logged and has
\* terminated the process, with no thread's holder constructed by it; a
\* thread whose holder is constructed has it registered under the created
\* key, and only such a thread has run a root operation; the key is created
\* at most once.
C15_TlsFailFast ==
    tls.pthread =>
        /\ tls.creates <= 1
        /\ tls.logged <=> \E t \in Threads : pc[t] \in TerminatePcs
        /\ \A t \in Threads :
              /\ pc[t] \in TerminatePcs => tls.holder[t] # "done"
              /\ tls.holder[t] = "done"
                    => tls.key = "created" /\ tls.slot[t] = t
              /\ RootOperationRan(t) => tls.holder[t] = "done"

\* One thread installed a root under the created key; another thread's
\* registration failed then and the process terminated.
C15_Witness ==
    /\ tls.pthread
    /\ tls.creates = 1
    /\ tls.logged
    /\ \E t, u \in Threads :
          /\ pc[u] = "terminate_set"
          /\ tls.slot[u] = NullPtr
          /\ tls.holder[t] = "done"
          /\ value[t] \in LiveRoots(t)

\* The call of the resume entry point that thread t is innermost in.
TopCall(t) == calls[t][Len(calls[t])]

\* The resumed work of thread t's innermost call runs, with no scoped root
\* of its own installed.
ResumedWorkRuns(t) ==
    /\ calls[t] # <<>>
    /\ pc[t] = "idle"
    /\ IsNewest(t, TopCall(t).root)

\* The step of the entry point that activates the frame and resumes the work.
ResumeStep(t) == pc[t] = "res_activate" /\ pc'[t] = "idle"

\* C16: while the work resumed by resumeCoroutineWithNewAsyncStackRoot runs,
\* tryGetCurrentAsyncStackRoot returns the root the entry point installed,
\* whose nextRoot is the root that was current when the entry point was
\* called; and when the work is resumed the frame is bound to that root and
\* is the root's top frame.
C16_ResumeInstalls ==
    /\ [](\A t \in Threads :
             ResumedWorkRuns(t) =>
                 /\ tryGetCurrentAsyncStackRoot(t) = TopCall(t).root
                 /\ roots[TopCall(t).root].nextRoot
                        = roots[TopCall(t).root].before)
    /\ [][\A t \in Threads :
             ResumeStep(t) =>
                 /\ tryGetCurrentAsyncStackRoot(t)' = TopCall(t).root
                 /\ stackRoot'[TopCall(t).frame] = TopCall(t).root
                 /\ roots'[TopCall(t).root].topFrame = TopCall(t).frame]_vars

\* Work was resumed under a root that was installed over another root of the
\* thread, and runs with its frame active under the new root.
C16_Witness ==
    \E t \in Threads :
        /\ ResumedWorkRuns(t)
        /\ tryGetCurrentAsyncStackRoot(t) = TopCall(t).root
        /\ roots[TopCall(t).root].nextRoot \in LiveRoots(t)
        /\ stackRoot[TopCall(t).frame] = TopCall(t).root
        /\ roots[TopCall(t).root].topFrame = TopCall(t).frame

\* A step in which thread t stores into its holder: lines 136, 146, 152.
OwnStore(t) == CtorSet(t) \/ DtorSet(t) \/ ExchangeSet(t)

\* C17: a thread's current-root pointer changes only in a step in which that
\* same thread stores into its holder, whatever operations the other threads
\* run, and tryGetCurrentAsyncStackRoot on a thread returns that thread's
\* pointer.
C17_ThreadsIndependent ==
    /\ [](\A t \in Threads : tryGetCurrentAsyncStackRoot(t) = value[t])
    /\ [][\A t \in Threads : value'[t] # value[t] => OwnStore(t)]_vars

\* A thread has exchanged its current root for none while another thread
\* has its own root installed and a third operation, on a suspended leaf, is
\* under way.
C17_Witness ==
    \E t, u \in Threads :
        /\ t # u
        /\ pc[t] = "exch_ret"
        /\ ret[t] \in LiveRoots(t)
        /\ value[t] = NullPtr
        /\ value[u] \in LiveRoots(u)
        /\ pc[u] \in LeafPcs

\* The roots a reader meets that follows nextRoot from r, for n steps at most.
RECURSIVE ChainFrom(_, _)
ChainFrom(r, n) ==
    IF r = NullPtr \/ n = 0
    THEN <<>>
    ELSE <<r>> \o ChainFrom(roots[r].nextRoot, n - 1)

\* The walk from thread t's current root, one step longer than there are roots.
Chain(t) == ChainFrom(tryGetCurrentAsyncStackRoot(t), MaxRoots + 1)

\* C18: with roots introduced by ScopedAsyncStackRoot only and destroyed in
\* reverse order of construction, the walk along nextRoot from a thread's
\* current root ends at none, meets no root twice, meets exactly the thread's
\* scoped roots that are constructed and not yet destroyed, and meets them
\* from the one constructed last to the one constructed first.
C18_NextRootChain ==
    \A t \in Threads :
        /\ Len(Chain(t)) <= MaxRoots
        /\ Cardinality(Range(Chain(t))) = Len(Chain(t))
        /\ Range(Chain(t)) = ScopedOn(t)
        /\ \A i, j \in DOMAIN Chain(t) :
              i < j => roots[Chain(t)[i]].born > roots[Chain(t)[j]].born

\* The inner of two nested roots is destroyed: the walk meets the outer one
\* alone, which was current when the inner one was constructed.
C18_Witness ==
    \E t \in Threads :
        /\ pc[t] = "dtor_ret"
        /\ Len(Chain(t)) = 1
        /\ roots[arg[t]].before = Chain(t)[1]
        /\ roots[arg[t]].born > roots[Chain(t)[1]].born

\* C19: in a build that is not a debug build no call of
\* activateSuspendedLeaf or deactivateSuspendedLeaf gets to the registry or
\* its lock: the registry is empty and no thread holds or waits for the lock
\* as a writer, a sweep has visited nothing, and a call that has returned
\* has changed the frame's root field.
C19_ReleaseRegistryEmpty ==
    ~kIsDebug =>
        /\ registry = {}
        /\ lock.writers = {}
        /\ \A t \in Threads :
              /\ pc[t] \notin {"act_lock", "act_insert", "deact_lock",
                                "deact_erase"}
              /\ visited[t] = <<>>
              /\ pc[t] = "act_ret" => stackRoot[arg[t]] = Cookie
              /\ pc[t] = "deact_ret" => stackRoot[arg[t]] = NullPtr

\* In a build that is not a debug build every frame is a suspended leaf and
\* a sweep has ended its iteration.
C19_Witness ==
    /\ ~kIsDebug
    /\ \A f \in Frames : isSuspendedLeafActive(f)
    /\ \E t \in Threads : pc[t] = "sw_unlock" /\ visited[t] = <<>>
    /\ \E t \in Threads : pc[t] = "act_ret"

\* Frame f is not a suspended leaf and no call is at work on it: it was never
\* activated, or the last deactivateSuspendedLeaf(f) has run to its end.
Retired(f) == stackRoot[f] = NullPtr /\ ~LeafCallInProgress(f)

\* C20: in a debug build, when deactivateSuspendedLeaf(f) has run to its end
\* and f is not activated again, f is not in the registry, so no sweep will
\* visit it, and no sweep that is still in progress has visited it.
C20_NoVisitAfterDeactivate ==
    kIsDebug =>
        \A f \in Frames :
            Retired(f) =>
                /\ f \notin registry
                /\ \A t \in Threads :
                      pc[t] \in {"sw_visit", "sw_unlock"}
                          => f \notin Range(visited[t])

\* deactivateSuspendedLeaf has run to its end on one frame while a sweep is
\* in progress, which has visited the other frame.
C20_Witness ==
    /\ kIsDebug
    /\ \E t, u \in Threads :
          /\ pc[u] = "deact_ret"
          /\ Retired(arg[u])
          /\ pc[t] = "sw_visit"
          /\ visited[t] # <<>>
          /\ arg[u] \notin Range(visited[t])

====
